---------------------------- MODULE Spec2Model ----------------------------
(***************************************************************************)
(* Model of list_freezones.py: one subprocess call to curl, one            *)
(* json.loads of the captured standard output, two header prints, one      *)
(* print per element of the parsed value, and a catch-all except clause    *)
(* that prints "Error: <e>" and exits with status 1.                       *)
(*                                                                         *)
(* The response body is a sequence of lexical tokens; json.loads is the    *)
(* recursive-descent parser of CPython's json.decoder over those tokens.   *)
(* Standard output is the sequence of print calls (one line each; the      *)
(* texts of the model hold no newline).                                    *)
(***************************************************************************)
EXTENDS Integers, Sequences, FiniteSets, TLC

(* Longest array the response bodies of the model hold. *)
MaxLen == 3

---------------------------------------------------------------------------
(* Python values.  Every value has the same four fields so that values of  *)
(* different kinds can be compared: k is the Python type, a the text of a  *)
(* scalar, keys/items the keys and values of a dict (insertion order), and *)
(* items the elements of a list.                                           *)

PyVal(k, a, keys, items) == [k |-> k, a |-> a, keys |-> keys, items |-> items]
PyNone       == PyVal("NoneType", "None", <<>>, <<>>)
PyInt(a)     == PyVal("int", a, <<>>, <<>>)
PyFloat(a)   == PyVal("float", a, <<>>, <<>>)
PyBool(a)    == PyVal("bool", a, <<>>, <<>>)
PyString(a)  == PyVal("str", a, <<>>, <<>>)
PyList(xs)   == PyVal("list", "", <<>>, xs)
PyDict(ks, xs) == PyVal("dict", "", ks, xs)

(* Lexical tokens of a response body: t is the token class, v its text. *)
Tok(t, v) == [t |-> t, v |-> v]
LBRACK == Tok("[", "[")
RBRACK == Tok("]", "]")
LBRACE == Tok("{", "{")
RBRACE == Tok("}", "}")
COMMA  == Tok(",", ",")
COLON  == Tok(":", ":")
Str(s) == Tok("str", s)
Num(s) == Tok("num", s)
Lit(s) == Tok("lit", s)
Const(s) == Tok("const", s)
Junk(s) == Tok("junk", s)

---------------------------------------------------------------------------
(* json.loads, as json.decoder does it. *)

ParseOk(v, n)  == [ok |-> TRUE,  val |-> v, next |-> n, err |-> ""]
ParseErr(m, n) == [ok |-> FALSE, val |-> PyNone, next |-> n,
                   err |-> m \o ": token " \o ToString(n - 1)]

(* dict[key] = value: a repeated key keeps its place and takes the new value. *)
DictSet(d, key, v) ==
  IF \E i \in 1..Len(d.keys) : d.keys[i] = key
  THEN LET i == CHOOSE i \in 1..Len(d.keys) : d.keys[i] = key
       IN PyDict(d.keys, [d.items EXCEPT ![i] = v])
  ELSE PyDict(Append(d.keys, key), Append(d.items, v))

(* The constants json.decoder maps: null, true, false. *)
LitValue(s) == CASE s = "null"  -> PyNone
                 [] s = "true"  -> PyBool("True")
                 [] s = "false" -> PyBool("False")

(* parse_constant: NaN, Infinity and -Infinity are accepted by default. *)
ConstValue(s) == CASE s = "NaN"       -> PyFloat("nan")
                   [] s = "Infinity"  -> PyFloat("inf")
                   [] s = "-Infinity" -> PyFloat("-inf")

RECURSIVE scan_once(_, _), JSONArrayLoop(_, _, _), JSONObjectLoop(_, _, _)

(* JSONArray: i is the position after "[". *)
JSONArray(toks, i) ==
  IF i <= Len(toks) /\ toks[i].t = "]"
  THEN ParseOk(PyList(<<>>), i + 1)
  ELSE JSONArrayLoop(toks, i, <<>>)

JSONArrayLoop(toks, i, acc) ==
  LET r == scan_once(toks, i) IN
  IF ~r.ok THEN r
  ELSE LET j == r.next IN
       IF j <= Len(toks) /\ toks[j].t = "]"
       THEN ParseOk(PyList(Append(acc, r.val)), j + 1)
       ELSE IF j > Len(toks) \/ toks[j].t # ","
       THEN ParseErr("Expecting ',' delimiter", j)
       ELSE JSONArrayLoop(toks, j + 1, Append(acc, r.val))

(* JSONObject: i is the position after "{". *)
JSONObject(toks, i) ==
  IF i <= Len(toks) /\ toks[i].t = "}"
  THEN ParseOk(PyDict(<<>>, <<>>), i + 1)
  ELSE JSONObjectLoop(toks, i, PyDict(<<>>, <<>>))

JSONObjectLoop(toks, i, d) ==
  IF i > Len(toks) \/ toks[i].t # "str"
  THEN ParseErr("Expecting property name enclosed in double quotes", i)
  ELSE IF i + 1 > Len(toks) \/ toks[i + 1].t # ":"
  THEN ParseErr("Expecting ':' delimiter", i + 1)
  ELSE LET r == scan_once(toks, i + 2) IN
       IF ~r.ok THEN r
       ELSE LET j  == r.next
                d2 == DictSet(d, toks[i].v, r.val)
            IN IF j <= Len(toks) /\ toks[j].t = "}"
               THEN ParseOk(d2, j + 1)
               ELSE IF j > Len(toks) \/ toks[j].t # ","
               THEN ParseErr("Expecting ',' delimiter", j)
               ELSE JSONObjectLoop(toks, j + 1, d2)

scan_once(toks, i) ==
  IF i > Len(toks) THEN ParseErr("Expecting value", i)
  ELSE LET tk == toks[i] IN
       CASE tk.t = "str"   -> ParseOk(PyString(tk.v), i + 1)
         [] tk.t = "{"     -> JSONObject(toks, i + 1)
         [] tk.t = "["     -> JSONArray(toks, i + 1)
         [] tk.t = "lit"   -> ParseOk(LitValue(tk.v), i + 1)
         [] tk.t = "num"   -> ParseOk(PyInt(tk.v), i + 1)
         [] tk.t = "const" -> ParseOk(ConstValue(tk.v), i + 1)
         [] OTHER          -> ParseErr("Expecting value", i)

(* JSONDecoder.decode: one value, then nothing but the end of the text. *)
json_loads(toks) ==
  LET r == scan_once(toks, 1) IN
  IF r.ok /\ r.next # Len(toks) + 1 THEN ParseErr("Extra data", r.next) ELSE r

---------------------------------------------------------------------------
(* The Python operations the print loop applies to the parsed value. *)

RECURSIVE JoinText(_, _)
JoinText(xs, sep) ==
  IF xs = <<>> THEN ""
  ELSE IF Len(xs) = 1 THEN xs[1]
  ELSE xs[1] \o sep \o JoinText(Tail(xs), sep)

RECURSIVE repr(_)
repr(v) ==
  CASE v.k = "str"  -> "'" \o v.a \o "'"
    [] v.k = "list" -> "[" \o JoinText([i \in 1..Len(v.items) |-> repr(v.items[i])], ", ") \o "]"
    [] v.k = "dict" -> "{" \o JoinText([i \in 1..Len(v.items) |->
                                 "'" \o v.keys[i] \o "': " \o repr(v.items[i])], ", ") \o "}"
    [] OTHER        -> v.a

(* What an f-string substitutes for {v}: str(v). *)
format(v) == IF v.k = "str" THEN v.a ELSE repr(v)

(* The characters a str is made of (the texts iterated in the model are    *)
(* written in this alphabet).                                              *)
Alphabet == {"a", "b"}
Chars(s) ==
  IF s = "" THEN <<>>
  ELSE CHOOSE cs \in [1..Len(s) -> Alphabet] : JoinText(cs, "") = s

IterOk(xs) == [ok |-> TRUE, items |-> xs, err |-> ""]
IterErr(m) == [ok |-> FALSE, items |-> <<>>, err |-> m]

(* iter(v): the elements of a list, the keys of a dict, the characters of  *)
(* a str; any other value is not iterable (TypeError).                     *)
iter(v) ==
  CASE v.k = "list" -> IterOk(v.items)
    [] v.k = "dict" -> IterOk([i \in 1..Len(v.keys) |-> PyString(v.keys[i])])
    [] v.k = "str"  -> LET cs == Chars(v.a)
                       IN IterOk([i \in 1..Len(cs) |-> PyString(cs[i])])
    [] OTHER        -> IterErr("'" \o v.k \o "' object is not iterable")

GetOk(v)  == [ok |-> TRUE,  val |-> v, err |-> ""]
GetErr(m) == [ok |-> FALSE, val |-> PyNone, err |-> m]

(* v[key] for a str key: the value of a dict key (KeyError when absent,    *)
(* whose text is the repr of the key); TypeError for every other type.     *)
getitem(v, key) ==
  CASE v.k = "dict" ->
         IF \E i \in 1..Len(v.keys) : v.keys[i] = key
         THEN GetOk(v.items[CHOOSE i \in 1..Len(v.keys) : v.keys[i] = key])
         ELSE GetErr("'" \o key \o "'")
    [] v.k = "list" -> GetErr("list indices must be integers or slices, not str")
    [] v.k = "str"  -> GetErr("string indices must be integers, not 'str'")
    [] OTHER        -> GetErr("'" \o v.k \o "' object is not subscriptable")

(* Faulty variant: zone.get('name', '') in place of zone['name']. *)
ZoneLine_Default(zone) ==
  LET id == getitem(zone, "id") IN
  IF ~id.ok THEN GetErr(id.err)
  ELSE LET name == getitem(zone, "name") IN
       GetOk(PyString("ID: " \o format(id.val) \o " - Name: "
                      \o (IF name.ok THEN format(name.val) ELSE "")))

(* f"ID: {zone['id']} - Name: {zone['name']}": 'id' is read first. *)
ZoneLine(zone) ==
  LET id == getitem(zone, "id") IN
  IF ~id.ok THEN GetErr(id.err)
  ELSE LET name == getitem(zone, "name") IN
       IF ~name.ok THEN GetErr(name.err)
       ELSE GetOk(PyString("ID: " \o format(id.val) \o " - Name: " \o format(name.val)))

(* A line of standard output: the print statement that wrote it and its text. *)
Line(kind, text) == [kind |-> kind, text |-> text]
TitleLine  == Line("title", "Available Free Zones:")
RuleLine   == Line("rule", "---------------------")
RecordLine(text) == Line("record", text)
ErrorLine(e) == Line("error", "Error: " \o e)

---------------------------------------------------------------------------
(* The response bodies of the model. *)

RECURSIVE Concat(_)
Concat(seqs) == IF seqs = <<>> THEN <<>> ELSE Head(seqs) \o Concat(Tail(seqs))

ObjToks(members) ==
  <<LBRACE>>
  \o Concat([i \in 1..Len(members) |->
        (IF i > 1 THEN <<COMMA>> ELSE <<>>) \o <<Str(members[i][1]), COLON, members[i][2]>>])
  \o <<RBRACE>>

ZoneA   == ObjToks(<< <<"id", Num("1")>>, <<"name", Str("Zone A")>> >>)
ZoneB   == ObjToks(<< <<"name", Str("Zone B")>>, <<"id", Str("fz-2")>>, <<"id", Lit("null")>> >>)
NoName  == ObjToks(<< <<"id", Num("3")>> >>)
NoId    == ObjToks(<< <<"name", Str("Zone C")>> >>)
StrElem == <<Str("x")>>
ListElem == <<LBRACK, Num("1"), RBRACK>>

Elements == {ZoneA, ZoneB, NoName, NoId, StrElem, ListElem}

ArrayToks(elems) ==
  <<LBRACK>>
  \o Concat([i \in 1..Len(elems) |-> (IF i > 1 THEN <<COMMA>> ELSE <<>>) \o elems[i]])
  \o <<RBRACK>>

ArrayBodies == UNION {{ArrayToks(es) : es \in [1..n -> Elements]} : n \in 0..MaxLen}

(* Top-level values that are no array, and a record whose id is NaN. *)
OtherBodies ==
  { <<LBRACE, RBRACE>>, ZoneA, <<Str("")>>, <<Str("ab")>>, <<Num("5")>>,
    <<Lit("true")>>, <<Lit("null")>>, <<Const("NaN")>>, <<Const("-Infinity")>>,
    ArrayToks(<<ObjToks(<< <<"id", Const("NaN")>>, <<"name", Str("Zone N")>> >>)>>) }

(* Bodies json.loads rejects: the empty body, an HTML page, a body cut     *)
(* short, a body followed by more text, a trailing comma, and a key that   *)
(* is no string.                                                           *)
CutShort(toks) == SubSeq(toks, 1, Len(toks) - 1)
BrokenBodies ==
  { <<>>, <<Junk("<html>")>>, <<LBRACK, Num("1"), COMMA, RBRACK>>,
    <<LBRACE, Num("1"), COLON, Num("1"), RBRACE>>,
    <<LBRACE, Str("id"), Num("1"), RBRACE>>, <<LBRACK, ZoneA[1], RBRACK>> }
  \cup {CutShort(b) : b \in ArrayBodies}
  \cup {b \o <<Junk("</html>")>> : b \in ArrayBodies}

Bodies == ArrayBodies \cup OtherBodies \cup BrokenBodies

(* What the subprocess can do: fail to launch, or run and exit with a      *)
(* status; when it ran, the server answered with an HTTP status that curl  *)
(* (run without --fail) does not turn into an exit status.                 *)
Envs ==
  { [launched |-> FALSE, rc |-> 0, http |-> 0] }
  \cup { [launched |-> TRUE, rc |-> 7, http |-> 0] }
  \cup { [launched |-> TRUE, rc |-> 0, http |-> h] : h \in {200, 500} }

---------------------------------------------------------------------------
(* The program.                                                            *)
(*   env        what the subprocess and the server do in this run          *)
(*   body       what the server sends (the backing data; runs share it)    *)
(*   pc         the statement to execute next                              *)
(*   output     the captured standard output of curl                       *)
(*   freezones  the parsed value                                           *)
(*   it         the iterator of the for loop: the elements still to come   *)
(*   zone       the loop variable                                          *)
(*   exc        the text of the exception being handled                    *)
(*   stdout     the lines printed so far                                   *)
(*   status     the exit status (-1 while the process runs)                *)
(*   calls      how often this run called check_output and json.loads      *)
(*   prev       the previous run: its env, its lines and its exit status   *)

VARIABLES env, body, pc, output, freezones, it, zone, exc, stdout, status, calls, prev

vars == <<env, body, pc, output, freezones, it, zone, exc, stdout, status, calls, prev>>

NoRun == [ran |-> FALSE, env |-> [launched |-> FALSE, rc |-> 0, http |-> 0],
          stdout |-> <<>>, status |-> -1]

(* The state of a process that has just started. *)
Fresh ==
  /\ pc = "check_output"
  /\ output = <<>>
  /\ freezones = PyNone
  /\ it = <<>>
  /\ zone = PyNone
  /\ exc = ""
  /\ stdout = <<>>
  /\ status = -1
  /\ calls = [check_output |-> 0, loads |-> 0]

Init ==
  /\ env \in Envs
  /\ body \in Bodies
  /\ prev = NoRun
  /\ Fresh

(* raise inside the try block: control goes to the except clause. *)
Raise(e) == pc' = "except" /\ exc' = e

(* Faulty variant: the exit status of curl is not checked (subprocess.run(...).stdout). *)
CheckOutput_NoCheck ==
  /\ pc = "check_output"
  /\ calls' = [calls EXCEPT !.check_output = @ + 1]
  /\ \/ /\ ~env.launched
        /\ Raise("[Errno 2] No such file or directory: 'curl'")
        /\ UNCHANGED output
     \/ /\ env.launched
        /\ output' = body
        /\ pc' = "loads"
        /\ UNCHANGED exc
  /\ UNCHANGED <<env, body, freezones, it, zone, stdout, status, prev>>

(* Faulty variant: curl --fail, which exits with status 22 on an HTTP status >= 400. *)
CheckOutput_FailOnHttp ==
  /\ pc = "check_output"
  /\ calls' = [calls EXCEPT !.check_output = @ + 1]
  /\ \/ /\ ~env.launched
        /\ Raise("[Errno 2] No such file or directory: 'curl'")
        /\ UNCHANGED output
     \/ /\ env.launched /\ (env.rc # 0 \/ env.http >= 400)
        /\ Raise("Command '['curl', '-X', 'GET', 'http://localhost:5000/api/free-zones']'"
                 \o " returned non-zero exit status "
                 \o ToString(IF env.rc # 0 THEN env.rc ELSE 22) \o ".")
        /\ UNCHANGED output
     \/ /\ env.launched /\ env.rc = 0 /\ env.http < 400
        /\ output' = body
        /\ pc' = "loads"
        /\ UNCHANGED exc
  /\ UNCHANGED <<env, body, freezones, it, zone, stdout, status, prev>>

(* line 6: output = subprocess.check_output(['curl', ...]) *)
CheckOutput ==
  /\ pc = "check_output"
  /\ calls' = [calls EXCEPT !.check_output = @ + 1]
  /\ \/ /\ ~env.launched
        /\ Raise("[Errno 2] No such file or directory: 'curl'")
        /\ UNCHANGED output
     \/ /\ env.launched /\ env.rc # 0
        /\ Raise("Command '['curl', '-X', 'GET', 'http://localhost:5000/api/free-zones']'"
                 \o " returned non-zero exit status " \o ToString(env.rc) \o ".")
        /\ UNCHANGED output
     \/ /\ env.launched /\ env.rc = 0
        /\ output' = body
        /\ pc' = "loads"
        /\ UNCHANGED exc
  /\ UNCHANGED <<env, body, freezones, it, zone, stdout, status, prev>>

(* json_loads tabulated over the bodies of the model, so that the parse of *)
(* a body is computed once.                                                *)
loads == [b \in Bodies |-> json_loads(b)]

(* line 7: freezones = json.loads(output) *)
Loads ==
  /\ pc = "loads"
  /\ calls' = [calls EXCEPT !.loads = @ + 1]
  /\ LET r == loads[output] IN
     \/ /\ r.ok
        /\ freezones' = r.val
        /\ pc' = "print_title"
        /\ UNCHANGED exc
     \/ /\ ~r.ok
        /\ Raise(r.err)
        /\ UNCHANGED freezones
  /\ UNCHANGED <<env, body, output, it, zone, stdout, status, prev>>

(* line 9: print("Available Free Zones:") *)
PrintTitle ==
  /\ pc = "print_title"
  /\ stdout' = Append(stdout, TitleLine)
  /\ pc' = "print_rule"
  /\ UNCHANGED <<env, body, output, freezones, it, zone, exc, status, calls, prev>>

(* line 10: print("---------------------") *)
PrintRule ==
  /\ pc = "print_rule"
  /\ stdout' = Append(stdout, RuleLine)
  /\ pc' = "for_iter"
  /\ UNCHANGED <<env, body, output, freezones, it, zone, exc, status, calls, prev>>

(* line 11: for zone in freezones -- the iterator is made once. *)
ForIter ==
  /\ pc = "for_iter"
  /\ LET r == iter(freezones) IN
     \/ /\ r.ok
        /\ it' = r.items
        /\ pc' = "for_next"
        /\ UNCHANGED exc
     \/ /\ ~r.ok
        /\ Raise(r.err)
        /\ UNCHANGED it
  /\ UNCHANGED <<env, body, output, freezones, zone, stdout, status, calls, prev>>

(* Faulty variant: the loop takes the elements from the end (reversed(freezones)). *)
ForNext_Reversed ==
  /\ pc = "for_next"
  /\ \/ /\ it # <<>>
        /\ zone' = it[Len(it)]
        /\ it' = SubSeq(it, 1, Len(it) - 1)
        /\ pc' = "print_zone"
     \/ /\ it = <<>>
        /\ pc' = "end"
        /\ UNCHANGED <<zone, it>>
  /\ UNCHANGED <<env, body, output, freezones, exc, stdout, status, calls, prev>>

(* line 11: the next element, or the end of the loop and of the try block. *)
ForNext ==
  /\ pc = "for_next"
  /\ \/ /\ it # <<>>
        /\ zone' = Head(it)
        /\ it' = Tail(it)
        /\ pc' = "print_zone"
     \/ /\ it = <<>>
        /\ pc' = "end"
        /\ UNCHANGED <<zone, it>>
  /\ UNCHANGED <<env, body, output, freezones, exc, stdout, status, calls, prev>>

(* Faulty variant: an element that cannot be printed is skipped (try/continue in the loop). *)
PrintZone_Skip ==
  /\ pc = "print_zone"
  /\ LET r == ZoneLine(zone) IN
     \/ /\ r.ok
        /\ stdout' = Append(stdout, RecordLine(r.val.a))
     \/ /\ ~r.ok
        /\ UNCHANGED stdout
  /\ pc' = "for_next"
  /\ UNCHANGED <<env, body, output, freezones, it, zone, exc, status, calls, prev>>

(* line 12: print(f"ID: {zone['id']} - Name: {zone['name']}") *)
PrintZone ==
  /\ pc = "print_zone"
  /\ LET r == ZoneLine(zone) IN
     \/ /\ r.ok
        /\ stdout' = Append(stdout, RecordLine(r.val.a))
        /\ pc' = "for_next"
        /\ UNCHANGED exc
     \/ /\ ~r.ok
        /\ Raise(r.err)
        /\ UNCHANGED stdout
  /\ UNCHANGED <<env, body, output, freezones, it, zone, status, calls, prev>>

(* Faulty variant: the except clause exits without printing (except Exception: sys.exit(1)). *)
Except_Silent ==
  /\ pc = "except"
  /\ pc' = "sys_exit"
  /\ UNCHANGED <<env, body, output, freezones, it, zone, exc, stdout, status, calls, prev>>

(* lines 14-15: except Exception as e: print(f"Error: {e}") *)
Except ==
  /\ pc = "except"
  /\ stdout' = Append(stdout, ErrorLine(exc))
  /\ pc' = "sys_exit"
  /\ UNCHANGED <<env, body, output, freezones, it, zone, exc, status, calls, prev>>

(* Faulty variant: sys.exit() without the status, which exits with status 0. *)
SysExit_Zero ==
  /\ pc = "sys_exit"
  /\ status' = 0
  /\ pc' = "exited"
  /\ UNCHANGED <<env, body, output, freezones, it, zone, exc, stdout, calls, prev>>

(* line 16: sys.exit(1) *)
SysExit ==
  /\ pc = "sys_exit"
  /\ status' = 1
  /\ pc' = "exited"
  /\ UNCHANGED <<env, body, output, freezones, it, zone, exc, stdout, calls, prev>>

(* The end of the module: the interpreter exits with status 0. *)
ModuleEnd ==
  /\ pc = "end"
  /\ status' = 0
  /\ pc' = "exited"
  /\ UNCHANGED <<env, body, output, freezones, it, zone, exc, stdout, calls, prev>>

(* Faulty variant: the lines of the run before are still there (an output file    *)
(* opened for appending).                                                  *)
Rerun_KeepStdout ==
  /\ pc = "exited"
  /\ prev' = [ran |-> TRUE, env |-> env, stdout |-> stdout, status |-> status]
  /\ env' \in Envs
  /\ pc' = "check_output"
  /\ output' = <<>>
  /\ freezones' = PyNone
  /\ it' = <<>>
  /\ zone' = PyNone
  /\ exc' = ""
  /\ status' = -1
  /\ calls' = [check_output |-> 0, loads |-> 0]
  /\ UNCHANGED <<body, stdout>>

(* The program is invoked again against the same backing data: a new       *)
(* process, which starts with nothing of the one before.                   *)
Rerun ==
  /\ pc = "exited"
  /\ prev' = [ran |-> TRUE, env |-> env, stdout |-> stdout, status |-> status]
  /\ env' \in Envs
  /\ pc' = "check_output"
  /\ output' = <<>>
  /\ freezones' = PyNone
  /\ it' = <<>>
  /\ zone' = PyNone
  /\ exc' = ""
  /\ stdout' = <<>>
  /\ status' = -1
  /\ calls' = [check_output |-> 0, loads |-> 0]
  /\ UNCHANGED body

Step == \/ CheckOutput \/ Loads \/ PrintTitle \/ PrintRule \/ ForIter
        \/ ForNext \/ PrintZone \/ Except \/ SysExit \/ ModuleEnd

Next == Step \/ Rerun

Spec == Init /\ [][Next]_vars

(* The interpreter runs the statements one after another and never stops   *)
(* between two of them.                                                    *)
FairSpec == Spec /\ WF_vars(Step)

---------------------------------------------------------------------------
(* Vocabulary of the properties. *)

Exited  == pc = "exited"
Fetched == env.launched /\ env.rc = 0
Parsed  == json_loads(body)

(* RFC 8259 JSON: what json.loads accepts, less NaN, Infinity, -Infinity. *)
ValidJson(toks) == json_loads(toks).ok /\ \A i \in 1..Len(toks) : toks[i].t # "const"

HasKey(v, key) == v.k = "dict" /\ \E i \in 1..Len(v.keys) : v.keys[i] = key
WellFormed(v)  == HasKey(v, "id") /\ HasKey(v, "name")
IsArray(r)      == r.ok /\ r.val.k = "list"
AllWellFormed(xs) == \A i \in 1..Len(xs) : WellFormed(xs[i])

Lines(kind) == {i \in 1..Len(stdout) : stdout[i].kind = kind}
NoHeader == Lines("title") = {} /\ Lines("rule") = {}
Header   == <<TitleLine, RuleLine>>

(* The record line of a well-formed element. *)
RecordOf(z) ==
  RecordLine("ID: " \o format(getitem(z, "id").val)
             \o " - Name: " \o format(getitem(z, "name").val))
Records(xs, n) == [i \in 1..n |-> RecordOf(xs[i])]

(* 1-based position of the first element that field access fails on. *)
FirstBad(xs) == CHOOSE k \in 1..Len(xs) :
                  ~WellFormed(xs[k]) /\ \A j \in 1..(k - 1) : WellFormed(xs[j])
(* 1-based position of the first dict element without 'name'. *)
FirstNameless(xs) == CHOOSE k \in 1..Len(xs) :
                  /\ xs[k].k = "dict" /\ ~HasKey(xs[k], "name")
                  /\ \A j \in 1..(k - 1) : ~(xs[j].k = "dict" /\ ~HasKey(xs[j], "name"))
SomeNameless(xs) == \E k \in 1..Len(xs) : xs[k].k = "dict" /\ ~HasKey(xs[k], "name")

SameOutcome == prev.ran /\ prev.env.launched = env.launched /\ prev.env.rc = env.rc

---------------------------------------------------------------------------
(* C1: after a successful fetch of an array of N elements that all hold    *)
(* 'id' and 'name', a finished run has printed the two header lines and    *)
(* then the N record lines in input order, nothing else, and has exit      *)
(* status 0; the array [{"id": 1, "name": "Zone A"}] gives the record line *)
(* "ID: 1 - Name: Zone A".                                                 *)
C1_Listing ==
  (Exited /\ Fetched /\ IsArray(Parsed) /\ AllWellFormed(Parsed.val.items)) =>
    /\ stdout = Header \o Records(Parsed.val.items, Len(Parsed.val.items))
    /\ Len(stdout) = 2 + Len(Parsed.val.items)
    /\ status = 0
    /\ body = ArrayToks(<<ZoneA>>) => stdout[3].text = "ID: 1 - Name: Zone A"

C1_Witness ==
  /\ Exited /\ Fetched /\ body = ArrayToks(<<ZoneA, ZoneB>>)
  /\ Len(stdout) = 4 /\ stdout[4].text = "ID: None - Name: Zone B" /\ status = 0

(* C2: after a successful fetch of a body that is not valid JSON, no       *)
(* header line is ever printed, and a finished run has printed an          *)
(* "Error: " line and has exit status 1.                                   *)
C2_NotJsonNoHeader ==
  (Fetched /\ ~ValidJson(body)) =>
    /\ NoHeader
    /\ Exited => (status = 1 /\ Lines("error") # {})

(* C3 as stated: when some element of the parsed array lacks 'name', no    *)
(* record line at all is printed, and the run ends with exit status 1.     *)
C3_NoRecordAtAll ==
  (Fetched /\ IsArray(Parsed) /\ SomeNameless(Parsed.val.items)) =>
    /\ Lines("record") = {}
    /\ Exited => status = 1

(* C3 amended: when some element of the parsed array lacks 'name', the    *)
(* run ends with exit status 1 and no record line is printed for the first *)
(* such element or for any element after it: the record lines are those of *)
(* elements before it, in order.                                           *)
C3_NoRecordFromDefect ==
  (Fetched /\ IsArray(Parsed) /\ SomeNameless(Parsed.val.items)) =>
    LET xs == Parsed.val.items
        n  == Cardinality(Lines("record"))
    IN /\ n < FirstNameless(xs)
       /\ \A i \in 1..n : stdout[2 + i] = RecordOf(xs[i])
       /\ Exited => status = 1

C3_Witness ==
  /\ Exited /\ Fetched /\ body = ArrayToks(<<ZoneA, ZoneB, NoName>>)
  /\ Cardinality(Lines("record")) = 2 /\ status = 1

(* C4: after a successful fetch of a body that parses to a value that is   *)
(* no array, a finished run has printed an "Error: " line and has exit     *)
(* status 1.                                                               *)
C4_NonArrayFails ==
  (Exited /\ Fetched /\ Parsed.ok /\ Parsed.val.k # "list") =>
    (status = 1 /\ Lines("error") # {})

(* C5 as stated: the complete output of a run that ended with exit status  *)
(* 1 is a single "Error: " line.                                           *)
C5_OnlyErrorLine ==
  (Exited /\ status = 1) => (Len(stdout) = 1 /\ stdout[1].kind = "error")

(* C5 amended: the output of a run that ended with exit status 1 holds     *)
(* exactly one "Error: " line, its last line; that line is the complete    *)
(* output exactly when the fetch or the parse failed, and otherwise the    *)
(* two header lines and only record lines stand before it.                 *)
C5_ErrorLineLast ==
  (Exited /\ status = 1) =>
    /\ Lines("error") = {Len(stdout)}
    /\ stdout[Len(stdout)] = ErrorLine(exc)
    /\ (Len(stdout) = 1) <=> (~Fetched \/ ~Parsed.ok)
    /\ Len(stdout) > 1 =>
         /\ SubSeq(stdout, 1, 2) = Header
         /\ Lines("record") = 3..(Len(stdout) - 1)

C5_Witness ==
  /\ Exited /\ status = 1 /\ Fetched /\ body = <<Num("5")>>
  /\ stdout = Header \o <<ErrorLine("'int' object is not iterable")>>

(* C6: when curl cannot be launched or exits with a non-zero status,       *)
(* json.loads is never called and no header or record line is printed,     *)
(* whatever the body; a finished run has printed exactly one line, an      *)
(* "Error: " line, and has exit status 1.                                  *)
C6_FetchFailure ==
  ~Fetched =>
    /\ calls.loads = 0
    /\ output = <<>>
    /\ NoHeader /\ Lines("record") = {}
    /\ Exited => (Len(stdout) = 1 /\ stdout[1].kind = "error" /\ status = 1)

C6_Witness ==
  /\ Exited /\ env.launched /\ env.rc = 7 /\ body = ArrayToks(<<ZoneA>>)
  /\ Len(stdout) = 1 /\ stdout[1].kind = "error" /\ status = 1

(* C7: when the first element of the parsed array that field access fails  *)
(* on is at 0-based position k, there are never more than k record lines,  *)
(* and the output of the finished run is the two header lines, the record  *)
(* lines of elements 0..k-1 in order, and one "Error: " line; its exit     *)
(* status is 1.                                                            *)
C7_PartialListing ==
  (Fetched /\ IsArray(Parsed) /\ ~AllWellFormed(Parsed.val.items)) =>
    LET xs == Parsed.val.items
        k  == FirstBad(xs) - 1
    IN /\ Cardinality(Lines("record")) <= k
       /\ Exited =>
            /\ Len(stdout) = k + 3
            /\ SubSeq(stdout, 1, k + 2) = Header \o Records(xs, k)
            /\ stdout[k + 3].kind = "error"
            /\ status = 1

C7_Witness ==
  /\ Exited /\ Fetched /\ body = ArrayToks(<<ZoneA, NoId, ZoneB>>)
  /\ stdout = Header \o <<RecordOf(Parsed.val.items[1]), ErrorLine("'id'")>>
  /\ status = 1

C9_HttpStatusIgnored ==
  /\ (Exited /\ Fetched /\ SameOutcome /\ prev.env.http # env.http) =>
       (stdout = prev.stdout /\ status = prev.status)
  /\ (Exited /\ Fetched /\ env.http >= 300 /\ IsArray(Parsed)
        /\ AllWellFormed(Parsed.val.items)) =>
       (status = 0 /\ Len(stdout) = 2 + Len(Parsed.val.items) /\ Lines("error") = {})

C9_Witness ==
  /\ Exited /\ Fetched /\ SameOutcome /\ prev.env.http = 200 /\ env.http = 500
  /\ body = ArrayToks(<<ZoneA, ZoneB>>) /\ status = 0 /\ Len(stdout) = 4

(* C10: every run ends: it reaches the exited state, with exit status 0 or *)
(* 1 (and has no exit status before); it has then called check_output      *)
(* once and json.loads at most once and printed at most one record line    *)
(* per element; the exit status is 1 exactly when one "Error: " line was   *)
(* printed, as the last line, and a run with exit status 0 printed none.   *)
C10_ExitedSafe ==
  /\ ~Exited => status = -1
  /\ calls.check_output <= 1 /\ calls.loads <= 1
  /\ Exited =>
       /\ status \in {0, 1}
       /\ calls.check_output = 1
       /\ Cardinality(Lines("record")) <=
            (IF Fetched /\ Parsed.ok /\ iter(Parsed.val).ok
             THEN Len(iter(Parsed.val).items) ELSE 0)
       /\ (status = 1) <=> (Lines("error") = {Len(stdout)} /\ stdout # <<>>)
       /\ status = 0 => Lines("error") = {}

C10_Terminates ==
  /\ []C10_ExitedSafe
  /\ [][Exited /\ Exited' => (status' = status /\ stdout' = stdout)]_vars
  /\ ~Exited ~> Exited

C10_Witness ==
  /\ Exited /\ status = 1 /\ Fetched /\ calls.loads = 1
  /\ body = ArrayToks(<<ZoneA, StrElem>>) /\ Len(stdout) = 4

=============================================================================
